---- MODULE Spec2Model ----
(***************************************************************************)
(* Job-history staging list and commit protocol of the HR console.         *)
(*                                                                         *)
(* The model follows one form session at a time: either the new-employee   *)
(* form (AddEmployeeForm, additive commit) or the edit form                *)
(* (EditEmployeeForm, replace-all commit), each hosting the                *)
(* JobHistorySection widget, in front of the employee and jobhistory       *)
(* tables.  Every await of the source is a point where other handlers may  *)
(* run: a request that has been issued and its continuation are separate   *)
(* steps.  Spec is the whole of it; SpecStaging is the forms and the       *)
(* widget without commits, followed through more presses.                  *)
(***************************************************************************)
EXTENDS Integers, Sequences, FiniteSets, TLC

\* ---------------------------------------------------------------- bounds
MaxOps == 3            \* presses of Add, Save Changes (edit) and Delete: staging only
MaxSessions == 2       \* times the form is opened: staging only
MaxClock == 1          \* clock units that pass in a behaviour: staging only
MaxCommits == 2        \* commit runs started in a behaviour
MaxReplaceOps == 1     \* presses of Add, Save Changes (edit) and Delete beside replace-all commits
MaxAdditiveOps == 2    \* presses of Add and Delete beside additive commits
MaxCommitSessions == 1 \* times the form is opened beside commits
DayLen == 2            \* clock units per calendar day
Today == 3             \* calendar day (UTC) on which the behaviour starts
MaxAuthEvents == 3     \* auth-state events delivered to AuthProvider's listener

\* ------------------------------------------------------------- constants
FirstEmpNo == 1001       \* fetchNextEmployeeNumber's default
Emp == FirstEmpNo + 3    \* the employee the edit form is opened for
LowEmp == FirstEmpNo - 2 \* an employee whose number has a digit less

TZs == {-1, 0, 1}    \* local time = UTC + tz clock units
DbNull == "<null>"       \* a NULL column of a row
\* the job and the department table as fetchData reads them; a description
\* or a name may be NULL
Job(c, d) == [jobcode |-> c, jobdesc |-> d]
Department(c, n) == [deptcode |-> c, deptname |-> n]
JobTable == <<Job("J1", "Analyst"), Job("J2", DbNull)>>
DepartmentTable == <<Department("D1", "Sales")>>
JobCodes == {JobTable[i].jobcode : i \in DOMAIN JobTable}
DeptCodes == {DepartmentTable[i].deptcode : i \in DOMAIN DepartmentTable}
Days == {1, 2}       \* days the calendar offers
Salaries == {-5, 0, 7}      \* what the number input of the salary takes
BackendError(request) == request \o " refused"   \* the message of a failed request

\* ------------------------------------------------------ values of fields
NoDate == [has |-> FALSE, t |-> 0]
DateAt(t) == [has |-> TRUE, t |-> t]
NoSalary == [has |-> FALSE, v |-> 0]
SalaryOf(v) == [has |-> TRUE, v |-> v]
NoId == ""

\* new Date("yyyy-MM-dd"): an ISO date-only string is midnight UTC
NewDateFromIso(day) == DateAt(day * DayLen)

\* the calendar's onSelect hands over local midnight of the chosen day
CalendarSelect(day, zone) == DateAt(day * DayLen - zone)

\* format(date, "yyyy-MM-dd"): the calendar day in local time
\* variant: the calendar day in UTC
MutFormatDate(t, zone) == t \div DayLen
FormatDate(t, zone) == (t + zone) \div DayLen

\* ------------------------------------------------------------ the tables
\* a jobhistory row: empno, jobcode, deptcode, effdate (a calendar day), salary
Row(e, j, d, day, sal) ==
    [empno |-> e, jobcode |-> j, deptcode |-> d, effdate |-> day, salary |-> sal]

P1 == Row(Emp, "J1", "D1", 1, SalaryOf(7))
P2 == Row(Emp, "J2", DbNull, 2, NoSalary)
InitTables == {<<>>, <<P1>>, <<P1, P2>>}

RECURSIVE SelectRows(_, _)
\* .from("jobhistory").select("*").eq("empno", e)
SelectRows(table, e) ==
    IF table = <<>> THEN <<>>
    ELSE IF Head(table).empno = e
         THEN <<Head(table)>> \o SelectRows(Tail(table), e)
         ELSE SelectRows(Tail(table), e)

RECURSIVE DeleteRows(_, _)
\* variant: deletes one row, whichever comes first
MutDeleteRows(table, e) == IF table = <<>> THEN table ELSE Tail(table)
\* .from("jobhistory").delete().eq("empno", e)
DeleteRows(table, e) ==
    IF table = <<>> THEN <<>>
    ELSE IF Head(table).empno = e
         THEN DeleteRows(Tail(table), e)
         ELSE <<Head(table)>> \o DeleteRows(Tail(table), e)

RECURSIVE InsertSorted(_, _)
InsertSorted(r, rows) ==
    IF rows = <<>> THEN <<r>>
    ELSE IF Head(rows).effdate >= r.effdate
         THEN <<Head(rows)>> \o InsertSorted(r, Tail(rows))
         ELSE <<r>> \o rows

RECURSIVE OrderByEffdateDesc(_)
\* .order("effdate", { ascending: false })
OrderByEffdateDesc(rows) ==
    IF rows = <<>> THEN <<>>
    ELSE InsertSorted(Head(rows), OrderByEffdateDesc(Tail(rows)))

\* the composite key of a jobhistory row
KeyOf(r) == <<r.empno, r.jobcode, r.effdate>>

\* the table can take the rows: no key twice, none present already
KeysFree(table, rows) ==
    /\ \A i, k \in 1..Len(rows) : i # k => KeyOf(rows[i]) # KeyOf(rows[k])
    /\ \A i \in 1..Len(rows), k \in 1..Len(table) : KeyOf(rows[i]) # KeyOf(table[k])

\* -------------------------------------------------- entries of the widget
Entry(id, j, d, date, sal) ==
    [id |-> id, jobcode |-> j, deptcode |-> d, effdate |-> date, salary |-> sal]

NullEntry == Entry("<null>", "", "", NoDate, NoSalary)      \* editingJobHistory = null
EmptySlot == Entry("<empty>", "", "", NoDate, NoSalary)     \* a hole of a sparse array

\* the initial and the reset value of newJobHistory; effdate is new Date()
BlankJobHistory(clock) == Entry(NoId, "", "", DateAt(clock), NoSalary)

\* fetchJobHistories: one fetched row in the widget's format
\* variant: no id, NULL department kept
MutFormatRow(job) ==
    Entry(NoId, job.jobcode, job.deptcode, NewDateFromIso(job.effdate), job.salary)
FormatRow(job) ==
    Entry(ToString(job.empno) \o "-" \o job.jobcode \o "-" \o ToString(job.effdate),
          job.jobcode,
          IF job.deptcode = DbNull \/ job.deptcode = "" THEN "" ELSE job.deptcode,
          NewDateFromIso(job.effdate),
          job.salary)

FormatRows(data) == [i \in 1..Len(data) |-> FormatRow(data[i])]

\* handleSaveJobHistories / onSubmit: the record written for one entry
\* variants: the day taken in UTC; the entry spread into the record, id and
\* all; the employee number left out
MutJobHistoryRecord(history, e, zone) ==
    Row(e, history.jobcode, history.deptcode, history.effdate.t \div DayLen, history.salary)
MutRecordWithId(history, e, zone) ==
    [id |-> history.id, empno |-> e, jobcode |-> history.jobcode,
     deptcode |-> history.deptcode,
     effdate |-> (history.effdate.t + zone) \div DayLen, salary |-> history.salary]
MutRecordWithoutEmpno(history, e, zone) ==
    Row(0, history.jobcode, history.deptcode,
        (history.effdate.t + zone) \div DayLen, history.salary)
JobHistoryRecord(history, e, zone) ==
    Row(e, history.jobcode, history.deptcode,
        FormatDate(history.effdate.t, zone), history.salary)

JobHistoryRecords(histories, e, zone) ==
    [i \in 1..Len(histories) |-> JobHistoryRecord(histories[i], e, zone)]

\* ---------------------------------------------------------- notifications
Toast(variant, title, description) ==
    [variant |-> variant, title |-> title, description |-> description]

\* ------------------------------------------------------------------ state
VARIABLES
    flow,                 \* "add": AddEmployeeForm, "edit": EditEmployeeForm
    tz,                   \* the browser's time zone
    now,                  \* Date.now()
    employee,             \* the employee table: its empno column
    jobhistory,           \* the jobhistory table, in insertion order
    formOpen,             \* the form is mounted
    empno,                \* data.empno / employee.empno; 0 is the empty field
    isLoadingEmpNo,       \* AddEmployeeForm
    empNoFetch,           \* fetchNextEmployeeNumber: "idle" or "sent"
    formJobHistories,     \* the form's jobHistories (the owner's copy)
    isJobHistoryOpen,     \* isJobHistoryDialogOpen / isJobHistoryOpen
    jhFetch,              \* fetchJobHistories: "idle" or "sent"
    jobHistories,         \* JobHistorySection: the staging list
    newJobHistory,        \* JobHistorySection: the draft of the next entry
    editingJobHistory,    \* JobHistorySection
    editIndex,            \* JobHistorySection
    isEditDialogOpen,     \* JobHistorySection
    isLoading,            \* JobHistorySection: reference data being fetched
    jobs,                 \* JobHistorySection: the jobs fetched
    departments,          \* JobHistorySection: the departments fetched
    runs,                 \* commit runs awaiting the backend
    deleting,             \* confirmDeleteEmployee: the request it awaits, or how it ended
    event,                \* the handler step that led to this state
    toasts,               \* toast() calls of that step
    notified,             \* onJobHistoriesChange() calls of that step
    used,                 \* presses, commit runs and sessions so far
    signedIn,             \* supabase.auth: the user of the client's session
    user,                 \* AuthProvider: session?.user ?? null
    authIsLoading,        \* AuthProvider: isLoading
    isAdmin,              \* AuthProvider
    sessionLookup,        \* getSession(): "sent" or "done"
    roleLookups,          \* handlers awaiting checkUserRole
    pathname,             \* the router's location
    authUsed,             \* auth-state events so far
    limit                 \* presses, commit runs, sessions and clock units allowed

dbVars == <<employee, jobhistory>>
formVars == <<formOpen, empno, isLoadingEmpNo, empNoFetch, formJobHistories,
              isJobHistoryOpen, jhFetch>>
widgetVars == <<jobHistories, newJobHistory, editingJobHistory, editIndex,
                isEditDialogOpen, isLoading, jobs, departments>>
outVars == <<event, toasts, notified>>
authVars == <<signedIn, user, authIsLoading, isAdmin, sessionLookup, roleLookups,
              pathname, authUsed>>
appVars == <<flow, tz, now, dbVars, formVars, widgetVars, runs, deleting, used, limit>>
vars == <<appVars, outVars, authVars>>

NoRun == [kind |-> "none", pc |-> "none", snap |-> <<>>, empno |-> 0,
          old |-> <<>>, overlap |-> FALSE, attached |-> FALSE, log |-> <<>>]

Ev(op) == [op |-> op, ok |-> TRUE, idx |-> 0, run |-> NoRun]
Quiet == Ev("")      \* a step whose outcome no property refers to

\* the widget's state when it is not mounted, and when it mounts
WidgetUnmounted ==
    /\ jobHistories' = <<>>
    /\ newJobHistory' = NullEntry
    /\ editingJobHistory' = NullEntry
    /\ editIndex' = -1
    /\ isEditDialogOpen' = FALSE
    /\ isLoading' = FALSE
    /\ jobs' = <<>>
    /\ departments' = <<>>

Start ==
    /\ flow \in {"add", "edit"}
    /\ tz \in TZs
    /\ now = Today * DayLen
    /\ employee \in IF flow = "edit" THEN {{Emp}} ELSE {{}, {Emp}, {Emp, LowEmp}}
    /\ jobhistory \in IF flow = "edit" THEN InitTables ELSE {<<>>}
    /\ formOpen = FALSE
    /\ empno = 0
    /\ isLoadingEmpNo = FALSE
    /\ empNoFetch = "idle"
    /\ formJobHistories = <<>>
    /\ isJobHistoryOpen = FALSE
    /\ jhFetch = "idle"
    /\ jobHistories = <<>>
    /\ newJobHistory = NullEntry
    /\ editingJobHistory = NullEntry
    /\ editIndex = -1
    /\ isEditDialogOpen = FALSE
    /\ isLoading = FALSE
    /\ jobs = <<>>
    /\ departments = <<>>
    /\ runs = <<>>
    /\ deleting = "idle"
    /\ event = Ev("init")
    /\ toasts = <<>>
    /\ notified = <<>>
    /\ used = [ops |-> 0, commits |-> 0, sessions |-> 0]

\* ------------------------------------------------------------------ auth
NoUser == "<none>"           \* session?.user ?? null: no session
Users == {"ana", "ben"}      \* the accounts of the auth service
Admins == {"ana"}            \* the accounts holding the admin role
Sessions == Users \cup {NoUser}

\* the console's pages are shown to a signed-in admin
AdminSignedIn ==
    /\ signedIn = "ana"
    /\ user = "ana"
    /\ authIsLoading = FALSE
    /\ isAdmin = TRUE
    /\ sessionLookup = "done"
    /\ roleLookups = <<>>
    /\ pathname = "/employees"
    /\ authUsed = MaxAuthEvents

\* the staging list on its own: no commit is started
InitStaging ==
    /\ Start
    /\ AdminSignedIn
    /\ limit = [ops |-> MaxOps, commits |-> 0, sessions |-> MaxSessions,
                clock |-> MaxClock]

\* the commit protocol
Init ==
    /\ Start
    /\ AdminSignedIn
    /\ limit = [ops |-> IF flow = "edit" THEN MaxReplaceOps ELSE MaxAdditiveOps,
                commits |-> MaxCommits,
                sessions |-> MaxCommitSessions, clock |-> 0]

\* Date.now() / new Date() of a handler: dt clock units after the last reading
Elapsed == {dt \in 0..MaxClock : now + dt <= Today * DayLen + limit.clock}

\* ------------------------------------------------- JobHistorySection (widget)
\* isDisabled: AddEmployeeForm passes isLoadingEmpNo, EditEmployeeForm nothing
isDisabled == flow = "add" /\ isLoadingEmpNo

\* the existingJobHistories effect, run after a render in which the prop changed
ExistingEffect(existing, current) ==
    IF flow = "edit" /\ Len(existing) > 0 THEN existing ELSE current

\* onJobHistoriesChange(updatedJobHistories): the calls a mutation makes
\* (variant: the call left out)
MutOnJobHistoriesChange(updatedJobHistories) == <<>>
OnJobHistoriesChange(updatedJobHistories) == <<updatedJobHistories>>

\* handleJobHistoriesChange of the form: setJobHistories(updatedJobHistories)
HandleJobHistoriesChange(updatedJobHistories) == updatedJobHistories

\* the form's copy after the calls of a step
OwnerAfter(current, calls) ==
    IF calls = <<>> THEN current ELSE HandleJobHistoriesChange(calls[Len(calls)])

\* what the user does to the draft before pressing Add: handleInputChange per field
KeepDate == [op |-> "keep", day |-> 0]
ClearDate == [op |-> "clear", day |-> 0]
PickDate(d) == [op |-> "pick", day |-> d]
KeepSalary == [op |-> "keep", v |-> 0]
TypeSalary(v) == [op |-> "set", v |-> v]
Input(j, d, date, sal) == [jobcode |-> j, deptcode |-> d, effdate |-> date, salary |-> sal]

AddInputs ==
    { Input("J1", "D1", PickDate(1), TypeSalary(7)),
      Input("J2", "D1", KeepDate, KeepSalary),
      Input("", "D1", PickDate(2), TypeSalary(0)),      \* job left as it is
      Input("J1", "", KeepDate, TypeSalary(-5)),        \* department left as it is, a
                                                        \* negative amount typed
      Input("J2", "D1", ClearDate, KeepSalary) }        \* the chosen day clicked again

HandleInputChange(draft, inp, zone) ==
    [draft EXCEPT
        !.jobcode = IF inp.jobcode = "" THEN @ ELSE inp.jobcode,
        !.deptcode = IF inp.deptcode = "" THEN @ ELSE inp.deptcode,
        !.effdate = CASE inp.effdate.op = "keep" -> @
                      [] inp.effdate.op = "clear" -> NoDate
                      [] OTHER -> CalendarSelect(inp.effdate.day, zone),
        !.salary = IF inp.salary.op = "keep" THEN @ ELSE SalaryOf(inp.salary.v)]

\* the validation of handleAddJobHistory and handleSaveEdit: the first failing
\* check's toast, or none
\* variant: no validation
MutMissingToast(h) == <<>>
MissingToast(h) ==
    IF h.jobcode = "" THEN <<Toast("destructive", "Missing job", "Please select a job")>>
    ELSE IF h.deptcode = ""
    THEN <<Toast("destructive", "Missing department", "Please select a department")>>
    ELSE IF ~h.effdate.has
    THEN <<Toast("destructive", "Missing effective date", "Please select an effective date")>>
    ELSE <<>>

\* [...jobHistories, { ...newJobHistory, id: Date.now().toString() }]
\* variant: the new entry put first
MutAppendJobHistory(list, draft, clock) ==
    <<[draft EXCEPT !.id = ToString(clock)]>> \o list
AppendJobHistory(list, draft, clock) ==
    Append(list, [draft EXCEPT !.id = ToString(clock)])

\* updatedJobHistories[editIndex] = editingJobHistory, on a copy; index from 0
\* variant: the edited entry pushed instead of assigned
MutArraySet(list, index, h) == Append(list, h)
ArraySet(list, index, h) ==
    IF index < 0 THEN list
    ELSE [i \in 1..(IF index + 1 > Len(list) THEN index + 1 ELSE Len(list)) |->
            IF i = index + 1 THEN h
            ELSE IF i <= Len(list) THEN list[i] ELSE EmptySlot]

\* updatedJobHistories.splice(index, 1), on a copy; index from 0
\* variant: splice(index) without its count
MutSplice(list, index) == SubSeq(list, 1, index)
Splice(list, index) ==
    IF index < 0 \/ index >= Len(list) THEN list
    ELSE SubSeq(list, 1, index) \o SubSeq(list, index + 2, Len(list))

\* "Manage Job History": the dialog (edit) or the collapsible (add) opens and
\* mounts the widget, whose mount effect starts fetchData
OpenJobHistory(dt) ==
    /\ formOpen /\ ~isJobHistoryOpen
    /\ flow = "add" => ~isLoadingEmpNo
    /\ isJobHistoryOpen' = TRUE
    /\ jobHistories' = IF flow = "edit" THEN formJobHistories ELSE <<>>
    /\ now' = now + dt
    /\ newJobHistory' = BlankJobHistory(now')
    /\ editingJobHistory' = NullEntry
    /\ editIndex' = -1
    /\ isEditDialogOpen' = FALSE
    /\ isLoading' = TRUE
    /\ jobs' = <<>>
    /\ departments' = <<>>
    /\ event' = Quiet
    /\ toasts' = <<>> /\ notified' = <<>>
    /\ UNCHANGED <<authVars, limit, deleting, used, flow, tz, dbVars, formOpen, empno, isLoadingEmpNo, empNoFetch,
                   formJobHistories, jhFetch, runs>>

\* Cancel / onOpenChange(false): the widget unmounts, the form keeps its copy
CloseJobHistory ==
    /\ formOpen /\ isJobHistoryOpen /\ ~isEditDialogOpen
    /\ isJobHistoryOpen' = FALSE
    /\ WidgetUnmounted
    /\ event' = Quiet
    /\ toasts' = <<>> /\ notified' = <<>>
    /\ UNCHANGED <<authVars, limit, deleting, used, flow, tz, now, dbVars, formOpen, empno, isLoadingEmpNo, empNoFetch,
                   formJobHistories, jhFetch, runs>>

\* fetchData settles: both selects succeeded, or the select of the jobs or the
\* one of the departments failed; setJobs / setDepartments happen before the
\* throw that follows them
FetchData ==
    /\ isJobHistoryOpen /\ isLoading
    /\ \/ /\ jobs' = JobTable /\ departments' = DepartmentTable
          /\ toasts' = <<>>
          /\ event' = Ev("FetchData")
       \/ /\ \/ UNCHANGED <<jobs, departments>>
             \/ jobs' = JobTable /\ UNCHANGED departments
          /\ toasts' = <<Toast("destructive", "Error fetching data",
                              BackendError("select"))>>
          /\ event' = [Ev("FetchData") EXCEPT !.ok = FALSE]
    /\ isLoading' = FALSE
    /\ notified' = <<>>
    /\ UNCHANGED <<authVars, limit, deleting, used, flow, tz, now, dbVars, formVars, jobHistories, newJobHistory,
                   editingJobHistory, editIndex, isEditDialogOpen, runs>>

\* the selects offer the codes that were fetched; "" is a select left alone
Offered(inp) ==
    /\ inp.jobcode \in {jobs[i].jobcode : i \in DOMAIN jobs} \cup {""}
    /\ inp.deptcode \in {departments[i].deptcode : i \in DOMAIN departments} \cup {""}

\* a || b of a label and a code: null, undefined and "" give the code
\* (variant: the label as it is)
Falsy(label) == label = DbNull \/ label = ""
MutOrElse(label, code) == label
OrElse(label, code) == IF Falsy(label) THEN code ELSE label

RECURSIVE FindJob(_, _)
\* jobs.find(j => j.jobcode === code)?.jobdesc: the first match, or undefined
FindJob(list, code) ==
    IF list = <<>> THEN DbNull
    ELSE IF Head(list).jobcode = code THEN Head(list).jobdesc
    ELSE FindJob(Tail(list), code)

RECURSIVE FindDepartment(_, _)
\* departments.find(d => d.deptcode === code)?.deptname
FindDepartment(list, code) ==
    IF list = <<>> THEN DbNull
    ELSE IF Head(list).deptcode = code THEN Head(list).deptname
    ELSE FindDepartment(Tail(list), code)

\* the job and the department cell of a row of the table
JobCell(history) == OrElse(FindJob(jobs, history.jobcode), history.jobcode)
DepartmentCell(history) ==
    OrElse(FindDepartment(departments, history.deptcode), history.deptcode)

\* the user fills the draft (handleInputChange) and presses Add
HandleAddJobHistory(inp, dt) ==
    LET draft == HandleInputChange(newJobHistory, inp, tz)
        missing == MissingToast(draft)
        updatedJobHistories == AppendJobHistory(jobHistories, draft, now + dt)
    IN  /\ isJobHistoryOpen /\ ~isDisabled /\ ~isLoading /\ ~isEditDialogOpen
        /\ Offered(inp)
        /\ used.ops < limit.ops
        /\ used' = [used EXCEPT !.ops = @ + 1]
        /\ IF missing # <<>>
           THEN /\ toasts' = missing
                /\ newJobHistory' = draft
                /\ notified' = <<>>
                /\ event' = [Ev("handleAddJobHistory") EXCEPT !.ok = FALSE]
                /\ UNCHANGED <<jobHistories, formJobHistories>>
           ELSE /\ notified' = OnJobHistoriesChange(updatedJobHistories)
                /\ formJobHistories' = OwnerAfter(formJobHistories, notified')
                /\ jobHistories' = ExistingEffect(formJobHistories', updatedJobHistories)
                /\ newJobHistory' = BlankJobHistory(now + dt)
                /\ toasts' = <<>>
                /\ event' = Ev("handleAddJobHistory")
        /\ now' = now + dt
        /\ UNCHANGED <<authVars, limit, deleting, flow, tz, dbVars, formOpen, empno, isLoadingEmpNo, empNoFetch,
                       isJobHistoryOpen, jhFetch, editingJobHistory, editIndex,
                       isEditDialogOpen, isLoading, jobs, departments, runs>>

\* Edit on row index: the edit dialog opens on a copy of the entry
HandleEditJobHistory(index) ==
    /\ isJobHistoryOpen /\ ~isDisabled /\ ~isEditDialogOpen
    /\ index \in 0..(Len(jobHistories) - 1)
    /\ jobHistories[index + 1] # EmptySlot
    /\ editingJobHistory' = jobHistories[index + 1]
    /\ editIndex' = index
    /\ isEditDialogOpen' = TRUE
    /\ event' = Quiet
    /\ toasts' = <<>> /\ notified' = <<>>
    /\ UNCHANGED <<authVars, limit, deleting, used, flow, tz, now, dbVars, formVars, jobHistories, newJobHistory,
                   isLoading, jobs, departments, runs>>

EditInputs ==
    { Input("J2", "D1", KeepDate, TypeSalary(0)),
      Input("", "", ClearDate, KeepSalary) }

\* the list after a change of the draft: editingJobHistory is a copy
\* ({ ...jobHistory }) and each change makes a new object, so the entry of the
\* list is not touched (variant: the draft is the entry itself)
MutAfterEditInput(list, index, h) == ArraySet(list, index, h)
AfterEditInput(list, index, h) == list

\* a field of the edit dialog changes
HandleEditInputChange(inp) ==
    /\ isJobHistoryOpen /\ isEditDialogOpen
    /\ editingJobHistory # NullEntry
    /\ Offered(inp)
    /\ editingJobHistory' = HandleInputChange(editingJobHistory, inp, tz)
    /\ editingJobHistory' # editingJobHistory
    /\ jobHistories' = AfterEditInput(jobHistories, editIndex, editingJobHistory')
    /\ event' = Quiet
    /\ toasts' = <<>> /\ notified' = <<>>
    /\ UNCHANGED <<authVars, limit, deleting, used, flow, tz, now, dbVars, formVars, newJobHistory,
                   editIndex, isEditDialogOpen, isLoading, jobs, departments, runs>>

\* Save Changes of the edit dialog
HandleSaveEdit ==
    LET missing == MissingToast(editingJobHistory)
        updatedJobHistories == ArraySet(jobHistories, editIndex, editingJobHistory)
    IN  /\ isJobHistoryOpen /\ isEditDialogOpen
        /\ editingJobHistory # NullEntry
        /\ used.ops < limit.ops
        /\ used' = [used EXCEPT !.ops = @ + 1]
        /\ IF missing # <<>>
           THEN /\ toasts' = missing
                /\ notified' = <<>>
                /\ event' = [Ev("handleSaveEdit") EXCEPT !.ok = FALSE, !.idx = editIndex]
                /\ UNCHANGED <<jobHistories, formJobHistories, editingJobHistory,
                               editIndex, isEditDialogOpen>>
           ELSE /\ notified' = OnJobHistoriesChange(updatedJobHistories)
                /\ formJobHistories' = OwnerAfter(formJobHistories, notified')
                /\ jobHistories' = ExistingEffect(formJobHistories', updatedJobHistories)
                /\ isEditDialogOpen' = FALSE
                /\ editingJobHistory' = NullEntry
                /\ editIndex' = -1
                /\ toasts' = <<>>
                /\ event' = [Ev("handleSaveEdit") EXCEPT !.idx = editIndex]
        /\ UNCHANGED <<authVars, limit, deleting, flow, tz, now, dbVars, formOpen, empno, isLoadingEmpNo, empNoFetch,
                       isJobHistoryOpen, jhFetch, newJobHistory, isLoading, jobs, departments, runs>>

\* Cancel of the edit dialog: setIsEditDialogOpen(false) and nothing else
CancelEdit ==
    /\ isJobHistoryOpen /\ isEditDialogOpen
    /\ isEditDialogOpen' = FALSE
    /\ event' = Quiet
    /\ toasts' = <<>> /\ notified' = <<>>
    /\ UNCHANGED <<authVars, limit, deleting, used, flow, tz, now, dbVars, formVars, jobHistories, newJobHistory,
                   editingJobHistory, editIndex, isLoading, jobs, departments, runs>>

\* Delete on row index
HandleRemoveJobHistory(index) ==
    LET updatedJobHistories == Splice(jobHistories, index)
    IN  /\ isJobHistoryOpen /\ ~isDisabled /\ ~isEditDialogOpen
        /\ index \in 0..(Len(jobHistories) - 1)
        /\ jobHistories[index + 1] # EmptySlot
        /\ used.ops < limit.ops
        /\ used' = [used EXCEPT !.ops = @ + 1]
        /\ notified' = OnJobHistoriesChange(updatedJobHistories)
        /\ formJobHistories' = OwnerAfter(formJobHistories, notified')
        /\ jobHistories' = ExistingEffect(formJobHistories', updatedJobHistories)
        /\ toasts' = <<>>
        /\ event' = [Ev("handleRemoveJobHistory") EXCEPT !.idx = index]
        /\ UNCHANGED <<authVars, limit, deleting, flow, tz, now, dbVars, formOpen, empno, isLoadingEmpNo, empNoFetch,
                       isJobHistoryOpen, jhFetch, newJobHistory, editingJobHistory,
                       editIndex, isEditDialogOpen, isLoading, jobs, departments, runs>>

\* ------------------------------------------------------------- the forms
Detach(rs) == [i \in 1..Len(rs) |-> [rs[i] EXCEPT !.attached = FALSE]]
Overlapped(rs) == [i \in 1..Len(rs) |-> [rs[i] EXCEPT !.overlap = TRUE]]
Without(rs, i) == SubSeq(rs, 1, i - 1) \o SubSeq(rs, i + 1, Len(rs))

FormUnmounted ==
    /\ formOpen' = FALSE
    /\ empno' = 0
    /\ isLoadingEmpNo' = FALSE
    /\ empNoFetch' = "idle"
    /\ formJobHistories' = <<>>
    /\ isJobHistoryOpen' = FALSE
    /\ jhFetch' = "idle"
    /\ WidgetUnmounted

\* Employees.handleEditEmployee / handleAddEmployee: the form mounts and its
\* mount effect issues fetchJobHistories / fetchNextEmployeeNumber
OpenForm ==
    /\ ~formOpen
    /\ used.sessions < limit.sessions
    /\ used' = [used EXCEPT !.sessions = @ + 1]
    /\ formOpen' = TRUE
    /\ IF flow = "edit"
       THEN /\ Emp \in employee
            /\ empno' = Emp
            /\ jhFetch' = "sent"
            /\ UNCHANGED <<isLoadingEmpNo, empNoFetch>>
       ELSE /\ empno' = 0
            /\ isLoadingEmpNo' = TRUE
            /\ empNoFetch' = "sent"
            /\ UNCHANGED jhFetch
    /\ event' = Quiet
    /\ toasts' = <<>> /\ notified' = <<>>
    /\ UNCHANGED <<authVars, limit, deleting, flow, tz, now, dbVars, formJobHistories, isJobHistoryOpen,
                   widgetVars, runs>>

\* Cancel of the form, or its dialog closed
CloseForm ==
    /\ formOpen /\ ~isEditDialogOpen
    /\ flow = "edit" => ~isJobHistoryOpen
    /\ FormUnmounted
    /\ runs' = Detach(runs)
    /\ event' = Quiet
    /\ toasts' = <<>> /\ notified' = <<>>
    /\ UNCHANGED <<authVars, limit, deleting, used, flow, tz, now, dbVars>>

Max(S) == CHOOSE x \in S : \A y \in S : y <= x

\* fetchNextEmployeeNumber settles
\* empno is a text column: a number is stored as its decimal digits
Radix == 10
RECURSIVE TextOf(_)
\* (n).toString()
TextOf(n) == IF n < Radix THEN <<n>> ELSE Append(TextOf(n \div Radix), n % Radix)

RECURSIVE ParseInt(_)
\* parseInt(text, 10) of a text of digits
ParseInt(text) ==
    IF text = <<>> THEN 0
    ELSE ParseInt(SubSeq(text, 1, Len(text) - 1)) * Radix + text[Len(text)]

RECURSIVE TextLess(_, _)
\* the order of two texts of digits: character by character, a prefix first
TextLess(a, b) ==
    IF b = <<>> THEN FALSE
    ELSE IF a = <<>> THEN TRUE
    ELSE IF Head(a) # Head(b) THEN Head(a) < Head(b)
    ELSE TextLess(Tail(a), Tail(b))

\* .select("empno").order("empno", { ascending: false }).limit(1)
HighestEmpNo(table) ==
    LET texts == {TextOf(e) : e \in table}
    IN  CHOOSE t \in texts : \A u \in texts : u = t \/ TextLess(u, t)

\* nextNumber: the default, or one more than the number parsed from the highest text
NextEmployeeNumber(table) ==
    IF table = {} THEN FirstEmpNo ELSE ParseInt(HighestEmpNo(table)) + 1

FetchNextEmployeeNumber ==
    /\ formOpen /\ flow = "add" /\ empNoFetch = "sent"
    /\ \/ /\ empno' = NextEmployeeNumber(employee)
          /\ toasts' = <<>>
          /\ event' = Ev("fetchNextEmployeeNumber")
       \/ /\ toasts' = <<Toast("destructive", "Error", "Failed to generate employee number")>>
          /\ event' = [Ev("fetchNextEmployeeNumber") EXCEPT !.ok = FALSE]
          /\ UNCHANGED empno
    /\ isLoadingEmpNo' = FALSE
    /\ empNoFetch' = "idle"
    /\ notified' = <<>>
    /\ UNCHANGED <<authVars, limit, deleting, used, flow, tz, now, dbVars, formOpen, formJobHistories, isJobHistoryOpen,
                   jhFetch, widgetVars, runs>>

\* fetchJobHistories settles: the select is answered and the function resumes
FetchJobHistories ==
    /\ formOpen /\ jhFetch = "sent"
    /\ \/ LET data == OrderByEffdateDesc(SelectRows(jobhistory, empno))
          IN  /\ formJobHistories' = FormatRows(data)
              /\ jobHistories' = IF isJobHistoryOpen
                                 THEN ExistingEffect(FormatRows(data), jobHistories)
                                 ELSE jobHistories
              /\ toasts' = <<>>
              /\ event' = Ev("fetchJobHistories")
       \/ /\ toasts' = <<Toast("destructive", "Failed to load job histories",
                              BackendError("select"))>>
          /\ event' = [Ev("fetchJobHistories") EXCEPT !.ok = FALSE]
          /\ UNCHANGED <<formJobHistories, jobHistories>>
    /\ jhFetch' = "idle"
    /\ notified' = <<>>
    /\ UNCHANGED <<authVars, limit, deleting, used, flow, tz, now, dbVars, formOpen, empno, isLoadingEmpNo, empNoFetch,
                   isJobHistoryOpen, newJobHistory, editingJobHistory, editIndex,
                   isEditDialogOpen, isLoading, jobs, departments, runs>>

\* ------------------------------------------------------ the commit protocol
\* a run of handleSaveJobHistories ("replace") or onSubmit ("additive"):
\* pc is the request it awaits, snap the jobHistories of its closure, log the
\* requests answered so far with their errors ("" is success), old the
\* employee's rows when it was issued
Run(kind, pc, snap, e, old, overlap) ==
    [kind |-> kind, pc |-> pc, snap |-> snap, empno |-> e, old |-> old,
     overlap |-> overlap, attached |-> TRUE, log |-> <<>>]

Answered(r, err) == [r EXCEPT !.log = Append(@, [req |-> r.pc, err |-> err])]
LastError(r) == IF r.log = <<>> THEN "" ELSE r.log[Len(r.log)].err

\* if (deleteError) throw deleteError; if (jobHistories.length > 0) { insert }
\* (variant: the error not looked at)
MutAfterDelete(err, snap) == IF Len(snap) > 0 THEN "insert" ELSE "done"
AfterDelete(err, snap) ==
    IF err # "" THEN "catch" ELSE IF Len(snap) > 0 THEN "insert" ELSE "done"

\* if (empError) throw empError; if (jobHistories.length > 0) { insert }
\* (variant: the error not looked at)
MutAfterEmployeeInsert(err, snap) == IF Len(snap) > 0 THEN "insert" ELSE "done"
AfterEmployeeInsert(err, snap) ==
    IF err # "" THEN "catch" ELSE IF Len(snap) > 0 THEN "insert" ELSE "done"

\* if (insertError) throw insertError / if (jobHistoryError) throw jobHistoryError
AfterInsert(err) == IF err # "" THEN "catch" ELSE "done"

\* variant: a fixed text in place of error.message
MutFailureToast(kind, e) == Toast("destructive", "Error", "Something went wrong")
\* the catch block's toast
FailureToast(kind, e) ==
    Toast("destructive",
          IF kind = "replace" THEN "Failed to update job histories"
          ELSE "Failed to add employee",
          e)

\* the toast at the end of the try block
SuccessToast(kind) ==
    IF kind = "replace"
    THEN Toast("default", "Job Histories Updated",
               "Job history information has been successfully updated")
    ELSE Toast("default", "Employee Added", "Employee has been successfully added")

Step(r, to) == [Ev("commit") EXCEPT !.ok = to # "catch", !.run = [r EXCEPT !.pc = to]]

\* the run goes on to its insert
Awaits(i, r) ==
    /\ runs' = [runs EXCEPT ![i] = [r EXCEPT !.pc = "insert"]]
    /\ event' = Step(r, "insert")
    /\ toasts' = <<>> /\ notified' = <<>>
    /\ UNCHANGED <<formVars, widgetVars>>

\* the run ends in its catch block: nothing but the toast
Fails(i, r) ==
    /\ runs' = Without(runs, i)
    /\ toasts' = <<FailureToast(r.kind, LastError(r))>>
    /\ event' = Step(r, "catch")
    /\ notified' = <<>>
    /\ UNCHANGED <<formVars, widgetVars>>

\* the run reaches the end of its try block.
\* replace: setIsJobHistoryDialogOpen(false), toast.
\* additive: toast, form.reset(), setJobHistories([]), onSuccess(), which is
\* Employees.handleAddSuccess and closes the dialog that holds the form,
\* whichever instance of the form that is.
Succeeds(i, r) ==
    /\ toasts' = <<SuccessToast(r.kind)>>
    /\ event' = Step(r, "done")
    /\ notified' = <<>>
    /\ IF r.kind = "replace"
       THEN /\ runs' = Without(runs, i)
            /\ IF r.attached
               THEN /\ isJobHistoryOpen' = FALSE
                    /\ WidgetUnmounted
                    /\ UNCHANGED <<formOpen, empno, isLoadingEmpNo, empNoFetch,
                                   formJobHistories, jhFetch>>
               ELSE UNCHANGED <<formVars, widgetVars>>
       ELSE /\ runs' = Detach(Without(runs, i))
            /\ FormUnmounted

Continue(i, r, to) ==
    CASE to = "insert" -> Awaits(i, r)
      [] to = "done" -> Succeeds(i, r)
      [] OTHER -> Fails(i, r)

\* the employee table takes the row: its number is not taken
EmployeeInsertable(table, e) == e \notin table

\* the jobhistory table takes the rows of the run: every slot of the list
\* holds an entry and no key clashes
Insertable(table, r, zone) ==
    /\ \A k \in 1..Len(r.snap) : r.snap[k] # EmptySlot
    /\ KeysFree(table, JobHistoryRecords(r.snap, r.empno, zone))

\* Save Changes of the job-history dialog: handleSaveJobHistories up to its
\* first await; the closure holds the jobHistories of the last render
HandleSaveJobHistories ==
    /\ flow = "edit" /\ formOpen /\ isJobHistoryOpen /\ ~isEditDialogOpen
    /\ used.commits < limit.commits
    /\ used' = [used EXCEPT !.commits = @ + 1]
    /\ runs' = Append(Overlapped(runs),
                      Run("replace", "delete", formJobHistories, empno,
                          SelectRows(jobhistory, empno), runs # <<>>))
    /\ event' = Quiet
    /\ toasts' = <<>> /\ notified' = <<>>
    /\ UNCHANGED <<authVars, limit, deleting, flow, tz, now, dbVars, formVars, widgetVars>>

\* the delete is answered and handleSaveJobHistories runs to its next await
\* or to its end
SaveDeleteReply(i) ==
    /\ runs[i].kind = "replace" /\ runs[i].pc = "delete"
    /\ \E err \in {"", BackendError("delete")} :
          /\ jobhistory' = IF err = "" THEN DeleteRows(jobhistory, runs[i].empno)
                           ELSE jobhistory
          /\ Continue(i, Answered(runs[i], err), AfterDelete(err, runs[i].snap))
    /\ UNCHANGED <<authVars, limit, deleting, used, flow, tz, now, employee>>

\* Add Employee: onSubmit up to its first await.  The button is disabled while
\* the number loads and the schema refuses an empty empno.
OnSubmit ==
    /\ flow = "add" /\ formOpen /\ ~isLoadingEmpNo /\ empno # 0 /\ ~isEditDialogOpen
    /\ used.commits < limit.commits
    /\ used' = [used EXCEPT !.commits = @ + 1]
    /\ runs' = Append(Overlapped(runs),
                      Run("additive", "employee", formJobHistories, empno,
                          SelectRows(jobhistory, empno), runs # <<>>))
    /\ event' = Quiet
    /\ toasts' = <<>> /\ notified' = <<>>
    /\ UNCHANGED <<authVars, limit, deleting, flow, tz, now, dbVars, formVars, widgetVars>>

\* the employee insert is answered
SubmitEmployeeReply(i) ==
    /\ runs[i].kind = "additive" /\ runs[i].pc = "employee"
    /\ \E err \in {"", BackendError("employee")} :
          /\ err = "" => EmployeeInsertable(employee, runs[i].empno)
          /\ employee' = IF err = "" THEN employee \cup {runs[i].empno} ELSE employee
          /\ Continue(i, Answered(runs[i], err), AfterEmployeeInsert(err, runs[i].snap))
    /\ UNCHANGED <<authVars, limit, deleting, used, flow, tz, now, jobhistory>>

\* referential integrity of jobhistory.empno: a row needs its employee, and
\* an employee that rows refer to cannot be deleted
EmployeeExists(table, e) == e \in table
EmployeeDeletable(rows, e) == SelectRows(rows, e) = <<>>

\* the records a run inserts: made from the jobHistories of the closure the
\* handler was called in, not from the form's list at the time of the insert
\* (variant: from the latest list)
MutInsertPayload(r, latest, zone) == JobHistoryRecords(latest, r.empno, zone)
InsertPayload(r, latest, zone) == JobHistoryRecords(r.snap, r.empno, zone)

\* the jobhistory insert of either commit is answered
InsertReply(i) ==
    /\ runs[i].pc = "insert"
    /\ \E err \in {"", BackendError("insert")} :
          /\ err = "" => /\ Insertable(jobhistory, runs[i], tz)
                        /\ EmployeeExists(employee, runs[i].empno)
          /\ jobhistory' = IF err = ""
                           THEN jobhistory \o InsertPayload(runs[i], formJobHistories, tz)
                           ELSE jobhistory
          /\ Continue(i, Answered(runs[i], err), AfterInsert(err))
    /\ UNCHANGED <<authVars, limit, deleting, used, flow, tz, now, employee>>

\* --------------------------------------------------- Employees: deletion
\* if (jhError) throw jhError; then the delete of the employee
\* (variant: the error not looked at)
MutAfterJobHistoryDelete(err) == "employee"
AfterJobHistoryDelete(err) == IF err # "" THEN "failed" ELSE "employee"

\* if (error) throw error; then the toast and the dialog closes
AfterEmployeeDelete(err) == IF err # "" THEN "failed" ELSE "done"

\* the toast of confirmDeleteEmployee when it has ended
DeleteToast(to, err) ==
    IF to = "failed" THEN <<Toast("destructive", "Failed to delete employee", err)>>
    ELSE IF to = "done"
    THEN <<Toast("default", "Employee Deleted",
                 "Employee and all job history records have been successfully removed")>>
    ELSE <<>>

\* Delete of the employee's row in the list, confirmed in the alert dialog:
\* confirmDeleteEmployee up to its first await.  The list is reachable when
\* no form dialog is open; the deletion is made once, after the form sessions.
ConfirmDeleteEmployee ==
    /\ ~formOpen /\ deleting = "idle"
    /\ Emp \in employee
    /\ limit.commits > 0 /\ used.sessions = limit.sessions
    /\ deleting' = "jobhistory"
    /\ runs' = Overlapped(runs)
    /\ event' = Quiet
    /\ toasts' = <<>> /\ notified' = <<>>
    /\ UNCHANGED <<authVars, limit, used, flow, tz, now, dbVars, formVars, widgetVars>>

\* the delete of the jobhistory rows is answered
DeleteJobHistoryReply ==
    /\ deleting = "jobhistory"
    /\ \E err \in {"", BackendError("delete")} :
          /\ jobhistory' = IF err = "" THEN DeleteRows(jobhistory, Emp) ELSE jobhistory
          /\ deleting' = AfterJobHistoryDelete(err)
          /\ toasts' = DeleteToast(deleting', err)
          /\ event' = [Ev("confirmDeleteEmployee") EXCEPT !.ok = (err = "")]
    /\ notified' = <<>>
    /\ UNCHANGED <<authVars, limit, used, flow, tz, now, employee, formVars, widgetVars, runs>>

\* the delete of the employee row is answered
DeleteEmployeeReply ==
    /\ deleting = "employee"
    /\ \E err \in {"", BackendError("delete")} :
          /\ err = "" => EmployeeDeletable(jobhistory, Emp)
          /\ employee' = IF err = "" THEN employee \ {Emp} ELSE employee
          /\ deleting' = AfterEmployeeDelete(err)
          /\ toasts' = DeleteToast(deleting', err)
          /\ event' = [Ev("confirmDeleteEmployee") EXCEPT !.ok = (err = "")]
    /\ notified' = <<>>
    /\ UNCHANGED <<authVars, limit, used, flow, tz, now, jobhistory, formVars, widgetVars, runs>>

\* ---------------------------------------------------------- AuthProvider
\* the has_role database function
HasRole(userId) == userId \in Admins

\* what supabase.rpc('has_role', ...) settles with
RpcReply(data, error, thrown) == [data |-> data, error |-> error, thrown |-> thrown]
RpcReplies(userId) ==
    {RpcReply(HasRole(userId), FALSE, FALSE),   \* { data, error: null }
     RpcReply(FALSE, TRUE, FALSE),              \* { data: null, error }
     RpcReply(FALSE, FALSE, TRUE)}              \* the promise rejects

MutCheckUserRole(reply) == ~reply.thrown /\ (reply.error \/ reply.data)

\* checkUserRole's return value
CheckUserRole(reply) ==
    IF reply.thrown THEN FALSE
    ELSE IF reply.error THEN FALSE
    ELSE reply.data \/ FALSE

\* a handler suspended at `await checkUserRole(session.user.id)`
RoleLookup(by, ev, userId) == [by |-> by, event |-> ev, userId |-> userId]

\* the (event, session) pairs the auth client delivers to the listener
AuthEvents ==
    {<<"SIGNED_IN", u>> : u \in IF signedIn = NoUser THEN Users ELSE {}}
        \cup {<<"SIGNED_OUT", NoUser>> : u \in {signedIn} \ {NoUser}}
        \cup {<<"TOKEN_REFRESHED", u>> : u \in {signedIn} \ {NoUser}}

\* the listener's navigate() calls
Navigate(ev, path) ==
    IF ev = "SIGNED_OUT" THEN "/login"
    ELSE IF ev = "SIGNED_IN" /\ path = "/login" THEN "/dashboard"
    ELSE path

\* the onAuthStateChange callback, up to its await or to its end
OnAuthStateChange(ev, sess) ==
    /\ authUsed < MaxAuthEvents
    /\ <<ev, sess>> \in AuthEvents
    /\ authUsed' = authUsed + 1
    /\ signedIn' = sess
    /\ user' = sess
    /\ IF sess # NoUser
       THEN /\ roleLookups' = Append(roleLookups, RoleLookup("listener", ev, sess))
            /\ UNCHANGED <<isAdmin, authIsLoading, pathname>>
       ELSE /\ isAdmin' = FALSE
            /\ authIsLoading' = FALSE
            /\ pathname' = Navigate(ev, pathname)
            /\ UNCHANGED roleLookups
    /\ event' = Ev("onAuthStateChange")
    /\ toasts' = <<>>
    /\ notified' = <<>>
    /\ UNCHANGED <<appVars, sessionLookup>>

\* the continuation of getSession(), up to its await or to its end
GetSessionThen ==
    /\ sessionLookup = "sent"
    /\ sessionLookup' = "done"
    /\ user' = signedIn
    /\ IF signedIn # NoUser
       THEN /\ roleLookups' = Append(roleLookups, RoleLookup("getSession", "", signedIn))
            /\ UNCHANGED authIsLoading
       ELSE /\ authIsLoading' = FALSE
            /\ UNCHANGED roleLookups
    /\ event' = Ev("getSession")
    /\ toasts' = <<>>
    /\ notified' = <<>>
    /\ UNCHANGED <<appVars, signedIn, isAdmin, pathname, authUsed>>

\* checkUserRole settles and the handler awaiting it runs to its end
RoleChecked(i, reply) ==
    /\ reply \in RpcReplies(roleLookups[i].userId)
    /\ isAdmin' = CheckUserRole(reply)
    /\ authIsLoading' = FALSE
    /\ pathname' = IF roleLookups[i].by = "listener"
                   THEN Navigate(roleLookups[i].event, pathname) ELSE pathname
    /\ roleLookups' = Without(roleLookups, i)
    /\ event' = [Ev("checkUserRole") EXCEPT !.ok = ~(reply.error \/ reply.thrown),
                                            !.idx = i]
    /\ toasts' = <<>>
    /\ notified' = <<>>
    /\ UNCHANGED <<appVars, signedIn, user, sessionLookup, authUsed>>

\* what AdminRoute renders
AdminRoute ==
    IF authIsLoading THEN "spinner"
    ELSE IF user = NoUser THEN "/login"
    ELSE IF ~isAdmin THEN "/dashboard"
    ELSE "children"

Next ==
    \/ OpenForm
    \/ CloseForm
    \/ FetchNextEmployeeNumber
    \/ FetchJobHistories
    \/ \E dt \in Elapsed : OpenJobHistory(dt)
    \/ CloseJobHistory
    \/ FetchData
    \/ \E inp \in AddInputs, dt \in Elapsed : HandleAddJobHistory(inp, dt)
    \/ \E index \in 0..(Len(jobHistories) - 1) : HandleEditJobHistory(index)
    \/ \E inp \in EditInputs : HandleEditInputChange(inp)
    \/ HandleSaveEdit
    \/ CancelEdit
    \/ \E index \in 0..(Len(jobHistories) - 1) : HandleRemoveJobHistory(index)
    \/ HandleSaveJobHistories
    \/ \E i \in 1..Len(runs) : SaveDeleteReply(i)
    \/ OnSubmit
    \/ \E i \in 1..Len(runs) : SubmitEmployeeReply(i)
    \/ \E i \in 1..Len(runs) : InsertReply(i)
    \/ ConfirmDeleteEmployee
    \/ DeleteJobHistoryReply
    \/ DeleteEmployeeReply

Spec == Init /\ [][Next]_vars

\* the staging list on its own: the forms and the widget, no commit
NextStaging ==
    \/ OpenForm
    \/ CloseForm
    \/ FetchNextEmployeeNumber
    \/ FetchJobHistories
    \/ \E dt \in Elapsed : OpenJobHistory(dt)
    \/ CloseJobHistory
    \/ FetchData
    \/ \E inp \in AddInputs, dt \in Elapsed : HandleAddJobHistory(inp, dt)
    \/ \E index \in 0..(Len(jobHistories) - 1) : HandleEditJobHistory(index)
    \/ \E inp \in EditInputs : HandleEditInputChange(inp)
    \/ HandleSaveEdit
    \/ CancelEdit
    \/ \E index \in 0..(Len(jobHistories) - 1) : HandleRemoveJobHistory(index)

SpecStaging == InitStaging /\ [][NextStaging]_vars

\* AuthProvider on its own, from its mount
InitAuth ==
    /\ Start
    /\ flow = "add" /\ tz = 0 /\ employee = {}
    /\ limit = [ops |-> 0, commits |-> 0, sessions |-> 0, clock |-> 0]
    /\ signedIn \in Sessions
    /\ user = NoUser
    /\ authIsLoading = TRUE
    /\ isAdmin = FALSE
    /\ sessionLookup = "sent"
    /\ roleLookups = <<>>
    /\ pathname \in {"/login", "/employees"}
    /\ authUsed = 0

NextAuth ==
    \/ \E ev \in {"SIGNED_IN", "SIGNED_OUT", "TOKEN_REFRESHED"}, sess \in Sessions :
           OnAuthStateChange(ev, sess)
    \/ GetSessionThen
    \/ \E i \in 1..Len(roleLookups) :
           \E reply \in RpcReplies(roleLookups[i].userId) : RoleChecked(i, reply)

\* every request sent is settled: getSession() and each rpc resolve or reject
SpecAuth ==
    /\ InitAuth
    /\ [][NextAuth]_vars
    /\ WF_vars(GetSessionThen)
    /\ WF_vars(\E i \in 1..Len(roleLookups) :
                   \E reply \in RpcReplies(roleLookups[i].userId) : RoleChecked(i, reply))

\* ------------------------------------------------------------ the claims
\* the step that led here ended a replace-all run / an additive run in success
ReplaceDone == event.op = "commit" /\ event.run.kind = "replace" /\ event.run.pc = "done"
AdditiveDone == event.op = "commit" /\ event.run.kind = "additive" /\ event.run.pc = "done"
CommitFailed == event.op = "commit" /\ event.run.pc = "catch"

\* the rows a run writes
Written(r) == JobHistoryRecords(r.snap, r.empno, tz)

\* C1: when a replace-all commit has just succeeded, the employee's persisted
\* rows are exactly the entries of the staging list it committed, in the
\* list's order, and none of the earlier rows besides.
C1_ReplaceAllExact ==
    ReplaceDone => SelectRows(jobhistory, event.run.empno) = Written(event.run)

\* the same, for a run that had the backend to itself from issue to end
C1_AloneExact ==
    (ReplaceDone /\ ~event.run.overlap) =>
        SelectRows(jobhistory, event.run.empno) = Written(event.run)

C1_AloneWitness ==
    /\ ReplaceDone /\ ~event.run.overlap
    /\ Len(event.run.snap) = 3
    /\ event.run.old # <<>>

\* a step in which a commit run has a request answered and goes on or ends
CommitStep == event'.op = "commit" /\ runs' # runs
\* a step in which a commit run is issued
IssueStep == used'.commits # used.commits

\* C2: in a replace-all run the delete is the first request answered; the
\* insert is awaited or answered only after the delete succeeded; and a step
\* in which either request fails ends the run with one destructive toast, no
\* success toast, and the dialog as open or closed as it was.
C2_DeleteThenInsert ==
    [][(CommitStep /\ event'.run.kind = "replace") =>
        LET r == event'.run
        IN  /\ r.log[1].req = "delete"
            /\ (r.pc = "insert" \/ Len(r.log) = 2) => r.log[1].err = ""
            /\ Len(r.log) = 2 => r.log[2].req = "insert"
            /\ LastError(r) # "" =>
                  /\ r.pc = "catch"
                  /\ Len(toasts') = 1
                  /\ toasts'[1].variant = "destructive"
                  /\ toasts'[1].title = "Failed to update job histories"
                  /\ toasts'[1] # SuccessToast("replace")
                  /\ isJobHistoryOpen' = isJobHistoryOpen
                  /\ Len(runs') = Len(runs) - 1]_vars

\* a replace-all run has failed at its insert, after its delete went through,
\* and the dialog is still open
C2_Witness ==
    /\ CommitFailed /\ event.run.kind = "replace"
    /\ Len(event.run.log) = 2
    /\ isJobHistoryOpen
    /\ toasts = <<FailureToast("replace", BackendError("insert"))>>

\* C3: a step in which the employee insert of an additive run fails ends the
\* run there: no jobhistory request was or will be made by it, the jobhistory
\* table is as it was, the failure toast of onSubmit is shown, and the staging
\* list of the widget and of the form are what they were.
C3_EmployeeInsertFails ==
    [][(CommitStep /\ event'.run.kind = "additive" /\ event'.run.log[1].err # "") =>
        LET r == event'.run
        IN  /\ r.pc = "catch"
            /\ Len(r.log) = 1
            /\ Len(runs') = Len(runs) - 1
            /\ jobhistory' = jobhistory
            /\ toasts' = <<Toast("destructive", "Failed to add employee", r.log[1].err)>>
            /\ formJobHistories' = formJobHistories
            /\ jobHistories' = jobHistories]_vars

\* the employee insert has failed with two entries staged, which are still there
C3_Witness ==
    /\ CommitFailed /\ event.run.kind = "additive"
    /\ event.run.log = <<[req |-> "employee", err |-> BackendError("employee")]>>
    /\ Len(event.run.snap) = 2
    /\ formJobHistories = event.run.snap
    /\ jobHistories = event.run.snap

\* C4: in an additive run the employee insert is the first request answered;
\* the jobhistory insert is awaited or answered only after it succeeded; and
\* the rows a step adds to jobhistory are added by the run's insert and all
\* carry the number of the employee row that run inserted.
C4_EmployeeThenHistory ==
    [][(CommitStep /\ event'.run.kind = "additive") =>
        LET r == event'.run
            added == SubSeq(jobhistory', Len(jobhistory) + 1, Len(jobhistory'))
        IN  /\ r.log[1].req = "employee"
            /\ (r.pc = "insert" \/ Len(r.log) = 2) =>
                  /\ r.log[1].err = ""
                  /\ r.empno \in employee'
            /\ Len(r.log) = 2 => r.log[2].req = "insert"
            /\ SubSeq(jobhistory', 1, Len(jobhistory)) = jobhistory
            /\ added # <<>> =>
                  /\ r.log[Len(r.log)] = [req |-> "insert", err |-> ""]
                  /\ Len(added) = Len(r.snap)
                  /\ \A k \in 1..Len(added) : added[k].empno = r.empno]_vars

\* an additive run has inserted the employee and then two rows for it
C4_Witness ==
    /\ AdditiveDone
    /\ Len(event.run.snap) = 2
    /\ event.run.empno \in employee
    /\ SelectRows(jobhistory, event.run.empno) = Written(event.run)

\* C5: no step of a commit run short of its success changes the staging list
\* of the widget or of the form; and the step in which a request fails, be it
\* the employee insert, the delete or the jobhistory insert, shows one
\* destructive toast whose description is the message of that request's error.
C5_FailureLeavesList ==
    [][/\ (IssueStep \/ (CommitStep /\ event'.run.pc # "done")) =>
            /\ formJobHistories' = formJobHistories
            /\ jobHistories' = jobHistories
       /\ (CommitStep /\ event'.run.pc = "catch") =>
            LET r == event'.run
                last == r.log[Len(r.log)]
            IN  /\ last.err = BackendError(last.req)
                /\ last.req \in {"employee", "delete", "insert"}
                /\ Len(toasts') = 1
                /\ toasts'[1].variant = "destructive"
                /\ toasts'[1].description = last.err]_vars

\* the jobhistory insert of a replace-all run has failed; the list is there
C5_Witness ==
    /\ CommitFailed
    /\ toasts = <<Toast("destructive", "Failed to update job histories",
                        BackendError("insert"))>>
    /\ formJobHistories = event.run.snap
    /\ Len(jobHistories) = 3

\* C6: when a commit has just succeeded, one success toast is shown, the
\* form's staging list is empty or is what the run wrote, and the widget, if
\* it is mounted, holds the same list as the form.
C6_Flushed ==
    (ReplaceDone \/ AdditiveDone) =>
        /\ toasts = <<SuccessToast(event.run.kind)>>
        /\ \/ formJobHistories = <<>>
           \/ JobHistoryRecords(formJobHistories, event.run.empno, tz) = Written(event.run)
        /\ isJobHistoryOpen => jobHistories = formJobHistories

\* steps of the widget's three mutations
AddStep == event'.op = "handleAddJobHistory" /\ used'.ops = used.ops + 1
SaveEditStep == event'.op = "handleSaveEdit" /\ used'.ops = used.ops + 1
RemoveStep == event'.op = "handleRemoveJobHistory" /\ used'.ops = used.ops + 1

Incomplete(h) == h.jobcode = "" \/ h.deptcode = "" \/ ~h.effdate.has

\* C7: when Add is pressed on a draft without job code, without department
\* code or without effective date, one destructive toast names what is
\* missing, the widget's list and the form's copy are what they were, and
\* onJobHistoriesChange is not called.
C7_AddValidity ==
    [][AddStep =>
        LET candidate == IF Len(jobHistories') = Len(jobHistories) + 1
                         THEN jobHistories'[Len(jobHistories')]
                         ELSE newJobHistory'
        IN  Incomplete(candidate) =>
              /\ ~event'.ok
              /\ Len(toasts') = 1
              /\ toasts'[1].variant = "destructive"
              /\ toasts'[1].title \in {"Missing job", "Missing department",
                                       "Missing effective date"}
              /\ jobHistories' = jobHistories
              /\ formJobHistories' = formJobHistories
              /\ notified' = <<>>]_vars

\* Add was refused for the missing date, with two entries in the list
C7_Witness ==
    /\ event.op = "handleAddJobHistory" /\ ~event.ok
    /\ newJobHistory.jobcode # "" /\ newJobHistory.deptcode # ""
    /\ ~newJobHistory.effdate.has
    /\ toasts # <<>>
    /\ Len(jobHistories) = 2
    /\ notified = <<>>

\* C8: an Add that succeeds makes the list one longer, with the entries it
\* held before in their places and the new, complete entry last.
C8_AddAppends ==
    [][(AddStep /\ event'.ok) =>
        /\ Len(jobHistories') = Len(jobHistories) + 1
        /\ SubSeq(jobHistories', 1, Len(jobHistories)) = jobHistories
        /\ ~Incomplete(jobHistories'[Len(jobHistories')])
        /\ jobHistories'[Len(jobHistories')].id = ToString(now')]_vars

\* three adds to the empty list of the new-employee form, in the order made
C8_Witness ==
    /\ flow = "add"
    /\ event.op = "handleAddJobHistory" /\ event.ok
    /\ Len(jobHistories) = 3
    /\ jobHistories[1].jobcode = "J1" /\ jobHistories[2].jobcode = "J2"
    /\ jobHistories[3].jobcode = "J1"
    /\ jobHistories[1].id # jobHistories[3].id

\* C9: Save Changes of the edit dialog, passing validation with the edited
\* position inside the list, leaves the list as long as it was, with the
\* draft at that position and every other position as before.
C9_EditKeepsPosition ==
    [][(SaveEditStep /\ event'.ok /\ editIndex \in 0..(Len(jobHistories) - 1)) =>
        /\ Len(jobHistories') = Len(jobHistories)
        /\ jobHistories'[editIndex + 1] = editingJobHistory
        /\ \A k \in 1..Len(jobHistories) :
              k # editIndex + 1 => jobHistories'[k] = jobHistories[k]]_vars

\* the middle entry of three has been edited
C9_Witness ==
    /\ event.op = "handleSaveEdit" /\ event.ok /\ event.idx = 1
    /\ Len(jobHistories) = 3
    /\ jobHistories[2].jobcode = "J2" /\ jobHistories[2].salary = SalaryOf(0)
    /\ jobHistories[1].id # jobHistories[3].id

\* C10: Delete on a row makes the list one shorter: the entries before the
\* row keep their places, those after it move up by one, in order.
C10_RemoveKeepsOrder ==
    [][RemoveStep =>
        LET index == event'.idx
        IN  /\ index \in 0..(Len(jobHistories) - 1)
            /\ Len(jobHistories') = Len(jobHistories) - 1
            /\ \A k \in 1..Len(jobHistories') :
                  jobHistories'[k] = IF k <= index THEN jobHistories[k]
                                     ELSE jobHistories[k + 1]]_vars

\* the middle entry of three has been removed
C10_Witness ==
    /\ event.op = "handleRemoveJobHistory" /\ event.idx = 1
    /\ Len(jobHistories) = 2
    /\ jobHistories[1].id # jobHistories[2].id
    /\ used.ops = 3

\* the entry the edit dialog was opened on is no longer at its position
StaleTarget ==
    \/ editIndex \notin 0..(Len(jobHistories) - 1)
    \/ jobHistories[editIndex + 1].id # editingJobHistory.id

\* C11: Save Changes of the edit dialog on an entry that is no longer in the
\* list at the position it was opened on (the position is past the end, or
\* holds another entry) is refused, leaves the widget's list and the form's
\* copy as they were, and does not call onJobHistoriesChange.
C11_UnknownTarget ==
    [][(SaveEditStep /\ StaleTarget) =>
        /\ ~event'.ok
        /\ jobHistories' = jobHistories
        /\ formJobHistories' = formJobHistories
        /\ notified' = <<>>]_vars

\* C12: no two entries of the widget's list, nor of the form's copy, carry
\* the same id.
C12_UniqueIds ==
    \A list \in {jobHistories, formJobHistories} :
        \A i, k \in 1..Len(list) :
            (i # k /\ list[i] # EmptySlot /\ list[k] # EmptySlot) => list[i].id # list[k].id

\* a step in which Add, Save Changes of the edit dialog or Delete went through
MutationStep ==
    /\ event'.op \in {"handleAddJobHistory", "handleSaveEdit", "handleRemoveJobHistory"}
    /\ event'.ok
    /\ used'.ops = used.ops + 1

\* C13: every Add, Save Changes (edit) and Delete that goes through calls
\* onJobHistoriesChange once, with the whole list as the widget now holds it,
\* and the form's copy is that list afterwards.
C13_OwnerNotified ==
    [][MutationStep =>
        /\ notified' = <<jobHistories'>>
        /\ formJobHistories' = jobHistories']_vars

\* an edit of the second of three entries has reached the form
C13_Witness ==
    /\ event.op = "handleSaveEdit" /\ event.ok /\ event.idx = 1
    /\ Len(jobHistories) = 3
    /\ notified = <<jobHistories>>
    /\ formJobHistories = jobHistories
    /\ jobHistories[2].salary = SalaryOf(0)

\* the existingJobHistories prop reaches the mounted widget: at its mount
\* (useState's initial value) or when fetchJobHistories stores the rows it read
SeedStep ==
    /\ flow = "edit" /\ isJobHistoryOpen'
    /\ \/ ~isJobHistoryOpen
       \/ event'.op = "fetchJobHistories" /\ event'.ok

\* C14: seeding the widget with the form's entries replaces the whole staging
\* list, whatever the entries are (the empty sequence included), and makes no
\* onJobHistoriesChange call.
C14_SeedReplaces ==
    [][SeedStep =>
        /\ jobHistories' = formJobHistories'
        /\ notified' = <<>>]_vars

\* the employee's persisted rows as fetchJobHistories shows them
PersistedEntries == FormatRows(OrderByEffdateDesc(SelectRows(jobhistory, empno)))

\* the job-history dialog or the form closes while no commit run is awaited
CloseStep == (isJobHistoryOpen /\ ~isJobHistoryOpen') \/ (formOpen /\ ~formOpen')

\* the job-history dialog of the edit form opens after fetchJobHistories settled
ReopenStep == flow = "edit" /\ ~isJobHistoryOpen /\ isJobHistoryOpen' /\ jhFetch = "idle"

\* C15: closing the job-history dialog or the form without saving writes
\* nothing, and the dialog then opens on the employee's persisted rows (on
\* the empty list when they could not be read), never on the entries staged
\* and abandoned before.
C15_DiscardOnClose ==
    [][/\ (CloseStep /\ runs = <<>>) => (jobhistory' = jobhistory /\ employee' = employee)
       /\ ReopenStep => jobHistories' \in {PersistedEntries, <<>>}]_vars

\* C16: while the widget stays mounted and holds entries, its staging list and
\* the form's copy change only in a step of add, edit or remove; no fetch
\* that is answered in between replaces or drops an entry.
C16_OnlyMutations ==
    [][(isJobHistoryOpen /\ isJobHistoryOpen' /\ jobHistories # <<>> /\ ~MutationStep) =>
        /\ jobHistories' = jobHistories
        /\ formJobHistories' = formJobHistories]_vars

\* C17: no two commit runs of one form, issued for the same staging list,
\* await the backend at the same time.
C17_OneRunInFlight ==
    \A i, k \in 1..Len(runs) :
        (/\ i # k
         /\ runs[i].attached /\ runs[k].attached
         /\ runs[i].empno = runs[k].empno) => runs[i].snap # runs[k].snap

\* the step that led here answered the insert of a replace-all run that
\* another run overlapped, without error, and no run is awaited any more
LastInsertDone ==
    /\ ReplaceDone /\ event.run.overlap
    /\ event.run.log[Len(event.run.log)].req = "insert"
    /\ runs = <<>>

\* C18: when replace-all commits of one employee overlapped, the one whose
\* insert is answered last wins: the employee's rows are then the rows of
\* that commit alone, not a union or a mixture of the two staging lists.
C18_LastWriteWins ==
    LastInsertDone => SelectRows(jobhistory, event.run.empno) = Written(event.run)

\* the columns of a jobhistory row
RowFields == {"empno", "jobcode", "deptcode", "effdate", "salary"}

\* C19: the rows a commit run of either kind sends with its insert, and the
\* rows the jobhistory table holds, have exactly the fields empno, jobcode,
\* deptcode, effdate and salary: the id of a staged entry is never sent.
C19_NoLocalIdSent ==
    /\ \A i \in 1..Len(runs) :
          runs[i].pc = "insert" =>
              \A k \in 1..Len(runs[i].snap) :
                  runs[i].snap[k] # EmptySlot => DOMAIN Written(runs[i])[k] = RowFields
    /\ \A i \in 1..Len(jobhistory) : DOMAIN jobhistory[i] = RowFields

\* a run has had its insert of two entries answered without error; both
\* entries have an id, and the table holds the two rows
C19_Witness ==
    /\ event.op = "commit" /\ event.run.pc = "done"
    /\ Len(event.run.snap) = 2
    /\ \A k \in 1..2 : event.run.snap[k].id # NoId
    /\ SelectRows(jobhistory, event.run.empno) = Written(event.run)

\* the Add button of the mounted widget: disabled={isDisabled || isLoading}
AddEnabled == isJobHistoryOpen /\ ~isDisabled /\ ~isLoading

\* both lists of reference data are there
ReferenceLoaded == jobs # <<>> /\ departments # <<>>

\* C20: a fetchData in which either select failed shows the error, and Add
\* stays disabled for as long as the reference data has not been loaded.
C20_LoadFailure ==
    /\ (event.op = "FetchData" /\ ~event.ok) => toasts # <<>>
    /\ (isJobHistoryOpen /\ ~ReferenceLoaded) => ~AddEnabled

\* what does hold after a failed load: a press of Add creates no entry, the
\* department select having nothing to choose from
NoEntryWithoutCodes ==
    [][(AddStep /\ ~ReferenceLoaded) =>
        (~event'.ok /\ toasts' # <<>> /\ jobHistories' = jobHistories)]_vars

\* the rows the table of the widget shows (map skips the holes of the array)
Shown == {jobHistories[i] : i \in {k \in DOMAIN jobHistories : jobHistories[k] # EmptySlot}}

\* C21 as stated: a cell shows the description (name) of the loaded record
\* that has the entry's code when there is one, and the code when there is none.
C21_DescribeLoadedLabel ==
    \A h \in Shown :
        /\ \A k \in DOMAIN jobs :
              jobs[k].jobcode = h.jobcode => JobCell(h) = jobs[k].jobdesc
        /\ (\A k \in DOMAIN jobs : jobs[k].jobcode # h.jobcode) => JobCell(h) = h.jobcode
        /\ \A k \in DOMAIN departments :
              departments[k].deptcode = h.deptcode => DepartmentCell(h) = departments[k].deptname
        /\ (\A k \in DOMAIN departments : departments[k].deptcode # h.deptcode) =>
              DepartmentCell(h) = h.deptcode

\* C21: a cell shows the description (name) of the loaded record that has the
\* entry's code when there is one and its description is not NULL or empty;
\* in every other case, a record without description and no record at all,
\* it shows the code itself.
C21_DescribeLabel ==
    \A h \in Shown :
        /\ \A k \in DOMAIN jobs :
              jobs[k].jobcode = h.jobcode =>
                  JobCell(h) = IF Falsy(jobs[k].jobdesc) THEN h.jobcode ELSE jobs[k].jobdesc
        /\ (\A k \in DOMAIN jobs : jobs[k].jobcode # h.jobcode) => JobCell(h) = h.jobcode
        /\ \A k \in DOMAIN departments :
              departments[k].deptcode = h.deptcode =>
                  DepartmentCell(h) = IF Falsy(departments[k].deptname) THEN h.deptcode
                                      ELSE departments[k].deptname
        /\ (\A k \in DOMAIN departments : departments[k].deptcode # h.deptcode) =>
              DepartmentCell(h) = h.deptcode

\* the table shows a job with a description, a job without one and a
\* department code that no loaded record has
C21_Witness ==
    /\ ReferenceLoaded
    /\ \E h \in Shown : h.jobcode = "J1" /\ JobCell(h) = "Analyst"
    /\ \E h \in Shown : h.jobcode = "J2" /\ JobCell(h) = "J2"
    /\ \E h \in Shown : h.deptcode = "" /\ DepartmentCell(h) = ""
    /\ \E h \in Shown : h.deptcode = "D1" /\ DepartmentCell(h) = "Sales"

\* C22: the number fetchNextEmployeeNumber puts into the form is one more
\* than the numerically greatest employee number, and the default when there
\* is no employee.
C22_NextNumber ==
    (event.op = "fetchNextEmployeeNumber" /\ event.ok) =>
        empno = IF employee = {} THEN FirstEmpNo ELSE Max(employee) + 1

SalaryInRange(sal) == ~sal.has \/ sal.v >= 0

\* C23: the salary of every entry of the staging list and of the owner's
\* copy, and of every jobhistory row, is absent or a number that is not
\* negative.
C23_SalaryRange ==
    /\ \A h \in Shown : SalaryInRange(h.salary)
    /\ \A i \in DOMAIN formJobHistories :
          formJobHistories[i] # EmptySlot => SalaryInRange(formJobHistories[i].salary)
    /\ \A i \in DOMAIN jobhistory : SalaryInRange(jobhistory[i].salary)

\* the rows of a table or of a list as a set
RowSet(rows) == {rows[i] : i \in DOMAIN rows}

\* the step that led here ended, in success, a replace-all run that no other
\* run overlapped and that was issued on the list as fetchJobHistories seeded
\* it, no add, edit or remove having been made
SeededReplaceDone ==
    /\ ReplaceDone /\ ~event.run.overlap
    /\ used.ops = 0
    /\ event.run.snap = FormatRows(OrderByEffdateDesc(event.run.old))

\* C24: a replace-all commit of the list as it was seeded from the employee's
\* persisted rows leaves these rows as they were: the same job codes,
\* department codes, effective dates and salaries.
C24_RoundTrip ==
    SeededReplaceDone =>
        RowSet(SelectRows(jobhistory, event.run.empno)) = RowSet(event.run.old)

\* the step that led here ended a replace-all run in its catch block
ReplaceFailed == CommitFailed /\ event.run.kind = "replace"

\* the rows a failed replace-all run leaves: the rows from before it when its
\* delete failed, none when its insert failed
RowsAfterFailure(r) == IF r.log[Len(r.log)].req = "delete" THEN r.old ELSE <<>>

\* C25: when a replace-all commit has just failed, the employee's rows are
\* the rows from before the commit (its delete failed) or there are none (its
\* insert failed), never old and new rows together.
C25_FailureRows ==
    ReplaceFailed => SelectRows(jobhistory, event.run.empno) = RowsAfterFailure(event.run)

\* the same, for a run that had the backend to itself from issue to end
C25_AloneFailureRows ==
    (ReplaceFailed /\ ~event.run.overlap) =>
        SelectRows(jobhistory, event.run.empno) = RowsAfterFailure(event.run)

\* a step in which the insert of a run is answered without error
InsertedStep ==
    /\ CommitStep
    /\ event'.run.log[Len(event'.run.log)] = [req |-> "insert", err |-> ""]

\* C26: a run is issued with the owner's copy of the list as it is then; no
\* step, an add, edit or remove made while the run awaits the backend
\* included, changes the list a run holds; and the rows its insert writes are
\* the records of that list, one per entry and in its order.
C26_CommitSnapshot ==
    [][/\ IssueStep =>
            /\ Len(runs') = Len(runs) + 1
            /\ runs'[Len(runs')].snap = formJobHistories
       /\ Len(runs') >= Len(runs) =>
            \A i \in DOMAIN runs : runs'[i].snap = runs[i].snap
       /\ InsertedStep =>
            /\ \E i \in DOMAIN runs : runs[i].pc = "insert" /\ runs[i].snap = event'.run.snap
            /\ jobhistory' = jobhistory \o Written(event'.run)]_vars

\* a replace-all run has written its list although the form's list had
\* changed, by an add, while the run awaited the backend
C26_Witness ==
    /\ ReplaceDone
    /\ used.ops = 1
    /\ event.run.snap # <<>>
    /\ Len(formJobHistories) = Len(event.run.snap) + 1
    /\ SubSeq(formJobHistories, 1, Len(event.run.snap)) = event.run.snap
    /\ SelectRows(jobhistory, event.run.empno) = Written(event.run)

\* steps of the edit dialog that are no successful save: it opens, a field of
\* the draft changes, it is cancelled, Save Changes fails the validation
OpenEditStep == isJobHistoryOpen' /\ ~isEditDialogOpen /\ isEditDialogOpen'
DraftStep ==
    /\ isEditDialogOpen /\ isEditDialogOpen'
    /\ editingJobHistory' # editingJobHistory
CancelEditStep ==
    /\ isEditDialogOpen /\ ~isEditDialogOpen' /\ isJobHistoryOpen'
    /\ event'.op = ""
FailedSaveStep == SaveEditStep /\ ~event'.ok

\* C27: opening the edit dialog, changing its draft, cancelling it and a
\* Save Changes that fails the validation leave the staging list and the
\* owner's copy as they are and make no onJobHistoriesChange call.
C27_DraftIsolation ==
    [][(OpenEditStep \/ DraftStep \/ CancelEditStep \/ FailedSaveStep) =>
        /\ jobHistories' = jobHistories
        /\ formJobHistories' = formJobHistories
        /\ notified' = <<>>]_vars

\* Save Changes has just failed on a draft that differs from the entry it
\* was opened on, which is still in the list
C27_Witness ==
    /\ event.op = "handleSaveEdit" /\ ~event.ok
    /\ isEditDialogOpen
    /\ editIndex \in 0..(Len(jobHistories) - 1)
    /\ jobHistories[editIndex + 1].id = editingJobHistory.id
    /\ jobHistories[editIndex + 1] # editingJobHistory
    /\ formJobHistories = jobHistories

RoleCheckedStep == event'.op = "checkUserRole" /\ roleLookups' # roleLookups

\* C29: AdminRoute renders its protected children only when loading has
\* finished, a user is signed in and isAdmin is true; and in every
\* interleaving of auth-state events, the session lookup and role lookups,
\* isAdmin is never true while the current user is one whose role lookup has
\* not returned true: one who does not hold the admin role.
C29_AdminGating ==
    /\ AdminRoute = "children" => (~authIsLoading /\ user # NoUser /\ isAdmin)
    /\ (isAdmin /\ user # NoUser) => HasRole(user)

\* the route's three checks on their own
C29_RouteChecks ==
    AdminRoute = "children" => (~authIsLoading /\ user # NoUser /\ isAdmin)

\* C30: after AuthProvider mounts, isLoading eventually becomes false and
\* from then on stays false, with or without a session and however the role
\* lookups end; a handler resuming from a role lookup that returned an error
\* or threw sets isAdmin to false.
C30_LoadingEnds ==
    /\ <>[](~authIsLoading)
    /\ [][~authIsLoading => ~authIsLoading']_vars
    /\ [][(RoleCheckedStep /\ ~event'.ok) => (~isAdmin' /\ ~authIsLoading')]_vars

\* an admin's role lookup has just ended in an error or a throw: the flag is
\* down and loading is over, for a signed-in user
C30_Witness ==
    /\ event.op = "checkUserRole" /\ ~event.ok
    /\ user \in Admins
    /\ ~isAdmin /\ ~authIsLoading

====
